---- MODULE Spec2Model ----
(***************************************************************************)
(* Deliverease Crypto API: the JWT-gated request pipeline (HTTPBearer ->   *)
(* verify_jwt -> route handler -> CoinGeckoService -> HTTPClient) and the  *)
(* pagination utilities, modelled from app/auth, app/routers, app/services *)
(* and app/utils.                                                          *)
(*                                                                         *)
(* Three specifications share the module:                                  *)
(*   Spec      one inbound HTTP request at a time travelling through the   *)
(*             pipeline, with a clock and the tokens issued so far;        *)
(*   SpecPage  direct calls of the pagination utilities on bounded inputs; *)
(*   SpecAuth  direct calls of the authentication helpers: verify_jwt,     *)
(*             get_current_user_id, extract_token_from_header.             *)
(***************************************************************************)
EXTENDS Integers, Sequences, FiniteSets, TLC

VARIABLES
    settings,   \* the cached Settings singleton (get_settings)
    now,        \* wall clock, in ticks (TicksPerSecond ticks to a second)
    issued,     \* tokens returned by create_token so far, with their expire
    req,        \* the inbound request being served
    pc,         \* where the request is in the pipeline
    user,       \* what the verify_jwt dependency returned for the request
    outbound,   \* upstream requests issued on behalf of the request
    reply,      \* the provider's answer to the outbound request
    resp,       \* the HTTP response of the request
    call,       \* SpecPage, SpecAuth: the direct call being made
    ret         \* SpecPage, SpecAuth: what that call returned

vars == <<settings, now, issued, req, pc, user, outbound, reply, resp, call, ret>>

pipelineVars == <<now, issued, req, pc, user, outbound, reply, resp>>

pageVars == <<call, ret>>

(***************************************************************************)
(* Optional values: None is <<>>, a present value v is <<v>>.              *)
(***************************************************************************)
None == <<>>

Some(v) == <<v>>

IsNone(o) == o = <<>>

Val(o) == o[1]

Min(a, b) == IF a <= b THEN a ELSE b

Max(a, b) == IF a >= b THEN a ELSE b

(***************************************************************************)
(* Bounds of the model.                                                    *)
(***************************************************************************)
TicksPerSecond == 2     \* clock resolution: ticks in one second

SecondsPerHour == 1     \* time scale: seconds that stand for one hour

MaxTime == 4            \* the clock stops ticking here

MaxIssued == 1          \* tokens create_token hands out in one behaviour

MaxUpstreamItems == 3   \* longest list the upstream provider answers with

MaxItems == 10          \* longest list handed to paginate_list

MaxTotal == 7           \* largest total handed to PaginatedResponse.create

MaxPage == 4            \* largest page_num / per_page of a direct call

MaxTail == 3            \* characters that follow the start of a header

(***************************************************************************)
(* Settings (app/config/settings.py).  The hard-coded bounds of the        *)
(* per_page field and of the per_page query parameter are program          *)
(* constants, independent of settings.max_per_page.                        *)
(***************************************************************************)
FieldMaxPerPage == 100

QueryMaxPerPage == 100

QueryDefaultPerPage == 10

QueryDefaultPageNum == 1

\* The environments the service is started in: the default pagination
\* settings, a max_per_page below the defaults, and one above the hard-coded
\* bound.  jwt_expiration_hours is kept small so that a token's life ends
\* within MaxTime.
Configs ==
    { [jwt_expiration_hours |-> 1, default_page_num |-> 1,
       default_per_page |-> 10, max_per_page |-> 100],
      [jwt_expiration_hours |-> 2, default_page_num |-> 1,
       default_per_page |-> 10, max_per_page |-> 2],
      [jwt_expiration_hours |-> 1, default_page_num |-> 2,
       default_per_page |-> 5, max_per_page |-> 200] }

(***************************************************************************)
(* Pagination utilities (app/utils/pagination.py).                         *)
(***************************************************************************)
\* Python's a // b: floor division, for either sign of b (b # 0).
PyFloorDiv(a, b) == IF b > 0 THEN a \div b ELSE (-a) \div (-b)

\* Python's s[start:stop] on a list, negative indices counted from the end.
PySliceIndex(i, len) == IF i < 0 THEN Max(i + len, 0) ELSE Min(i, len)

PySlice(s, start, stop) ==
    LET lo == PySliceIndex(start, Len(s))
        hi == PySliceIndex(stop, Len(s))
    IN  IF hi <= lo THEN <<>> ELSE SubSeq(s, lo + 1, hi)

\* The Field constraints of PaginationParams: page_num ge=1, per_page ge=1 le=100.
PaginationFieldsValid(page_num, per_page) ==
    /\ page_num >= 1
    /\ per_page >= 1
    /\ per_page <= FieldMaxPerPage

\* PaginationParams.__init__: defaults from settings, per_page capped at
\* settings.max_per_page, then pydantic validates the Field constraints
\* (ok = FALSE stands for the ValidationError it raises).
PaginationParams(cfg, page_num, per_page) ==
    LET p  == IF IsNone(page_num) THEN cfg.default_page_num ELSE Val(page_num)
        q  == IF IsNone(per_page) THEN cfg.default_per_page ELSE Val(per_page)
        pp == Min(q, cfg.max_per_page)
    IN  [ok |-> PaginationFieldsValid(p, pp), page_num |-> p, per_page |-> pp]

get_offset(params) == (params.page_num - 1) * params.per_page

\* Floor instead of ceiling: the off-by-one a bug would make.
TotalPagesFloor(total, per_page) == PyFloorDiv(total, per_page)

\* total_pages of PaginatedResponse.create.
TotalPages(total, per_page) == PyFloorDiv(total + per_page - 1, per_page)

\* PaginatedResponse.create: the envelope; per_page = 0 raises ZeroDivisionError
\* (ok = FALSE).  data is stored as given, never re-sliced.
PaginatedResponse_create(data, total, page_num, per_page) ==
    IF per_page = 0
    THEN [ok |-> FALSE, data |-> <<>>, total |-> 0, page_num |-> 0,
          per_page |-> 0, total_pages |-> 0]
    ELSE [ok |-> TRUE, data |-> data, total |-> total, page_num |-> page_num,
          per_page |-> per_page, total_pages |-> TotalPages(total, per_page)]

\* A slice that starts one item late: the off-by-one a bug would make.
paginate_list_off_by_one(items, page_num, per_page) ==
    LET offset == page_num * per_page - per_page + 1
    IN  [items |-> PySlice(items, offset, offset + per_page), total |-> Len(items)]

\* PaginationHelper.paginate_list.
paginate_list(items, page_num, per_page) ==
    LET total  == Len(items)
        offset == (page_num - 1) * per_page
        end    == offset + per_page
    IN  [items |-> PySlice(items, offset, end), total |-> total]

(***************************************************************************)
(* Token codec (app/auth/jwt_manager.py).  A token is the JWS that         *)
(* jwt.encode builds: the payload and a signature that is a function of    *)
(* the key and of the payload.  "garbage" is a string that is no JWS.      *)
(***************************************************************************)
SecretKey == "jwt_secret_key"

Sign(key, sub, exp) == <<key, sub, exp>>

TicksPerHour == SecondsPerHour * TicksPerSecond

\* jwt.encode: a datetime exp is written as whole seconds since the epoch
\* (timegm of utctimetuple), the payload is signed with the key.
jwt_encode(sub, expire, key) ==
    LET exp == expire \div TicksPerSecond
    IN  [form |-> "jws", sub |-> sub, exp |-> exp, sig |-> Sign(key, sub, exp)]

\* JWTManager.create_token at time t: data is copied, exp = now + expires_delta
\* when expires_delta is truthy, else now + jwt_expiration_hours; returns the
\* encoded token.  expires_delta is optional, in ticks.
TokenExpire(cfg, expires_delta, t) ==
    IF ~IsNone(expires_delta) /\ Val(expires_delta) # 0
    THEN t + Val(expires_delta)
    ELSE t + cfg.jwt_expiration_hours * TicksPerHour

\* A create_token that forgets the supplied claims.
create_token_drops_data(cfg, sub, expires_delta, t) ==
    jwt_encode(None, TokenExpire(cfg, expires_delta, t), SecretKey)

create_token(cfg, sub, expires_delta, t) ==
    jwt_encode(sub, TokenExpire(cfg, expires_delta, t), SecretKey)

\* The exception classes of PyJWT that jwt.decode raises here.
IsInstance(exc, cls) ==
    \/ exc = cls
    \/ cls = "InvalidTokenError"
         /\ exc \in {"ExpiredSignatureError", "DecodeError", "InvalidSignatureError"}
    \/ cls = "DecodeError" /\ exc = "InvalidSignatureError"

\* jwt.decode at time t: structure, then signature, then exp (expired when
\* exp <= now, now in seconds); on success the payload of the token.
jwt_decode(token, key, t) ==
    IF token.form # "jws"
    THEN [exc |-> "DecodeError", payload |-> [sub |-> None, exp |-> 0]]
    ELSE IF token.sig # Sign(key, token.sub, token.exp)
    THEN [exc |-> "InvalidSignatureError", payload |-> [sub |-> None, exp |-> 0]]
    ELSE IF token.exp * TicksPerSecond <= t
    THEN [exc |-> "ExpiredSignatureError", payload |-> [sub |-> None, exp |-> 0]]
    ELSE [exc |-> "none", payload |-> [sub |-> token.sub, exp |-> token.exp]]

\* verify_token with its except clauses in the wrong order: the broader
\* InvalidTokenError clause first.
verify_token_wrong_order(token, t) ==
    LET r == jwt_decode(token, SecretKey, t)
    IN  IF r.exc = "none" THEN r
        ELSE IF IsInstance(r.exc, "InvalidTokenError")
        THEN [r EXCEPT !.exc = "InvalidTokenError"]
        ELSE [r EXCEPT !.exc = "ExpiredSignatureError"]

\* JWTManager.verify_token at time t: the payload, or the exception re-raised
\* by the first matching except clause.
verify_token(token, t) ==
    LET r == jwt_decode(token, SecretKey, t)
    IN  IF r.exc = "none" THEN r
        ELSE IF IsInstance(r.exc, "ExpiredSignatureError")
        THEN [r EXCEPT !.exc = "ExpiredSignatureError"]
        ELSE [r EXCEPT !.exc = "InvalidTokenError"]

(***************************************************************************)
(* HTTP responses.  Every response has the same shape; body fields that a  *)
(* route does not set stay at their empty value.                           *)
(***************************************************************************)
EmptyBody ==
    [kind |-> "none", data |-> <<>>, total |-> 0, page_num |-> 0,
     per_page |-> 0, total_pages |-> 0]

NoResp == [status |-> 0, www_authenticate |-> "", detail |-> "", body |-> EmptyBody]

\* fastapi.HTTPException(status_code, detail, headers)
HTTPException(status, detail, www) ==
    [status |-> status, www_authenticate |-> www, detail |-> detail, body |-> EmptyBody]

\* a handler's return value, sent with status 200
Ok(body) == [status |-> 200, www_authenticate |-> "", detail |-> "", body |-> body]

ListBody(kind, data) == [EmptyBody EXCEPT !.kind = kind, !.data = data]

(***************************************************************************)
(* The upstream provider and HTTPClient.get (app/utils/http_client.py).    *)
(* A reply is the provider's answer to one GET: a JSON list of n items, or *)
(* a failure: no connection, a timeout, a 4xx/5xx status.                  *)
(***************************************************************************)
Failures == {"ConnectError", "ReadTimeout", "HTTPStatusError"}

Replies ==
    {[kind |-> "ok", n |-> k] : k \in 0..MaxUpstreamItems}
        \cup {[kind |-> f, n |-> 0] : f \in Failures}

NoReply == [kind |-> "none", n |-> 0]

\* str(e) of the exception a failed reply raises
ExcText(kind) ==
    CASE kind = "ConnectError" -> "All connection attempts failed"
      [] kind = "ReadTimeout" -> "The read operation timed out"
      [] kind = "HTTPStatusError" -> "Server error '503 Service Unavailable' for url"
      [] OTHER -> ""

\* the coins of a provider answer of n items; every other one lacks a symbol
UpstreamCoin(i) == [id |-> i, symbol |-> IF i % 2 = 1 THEN Some("btc") ELSE None]

UpstreamItems(n) == [i \in 1..n |-> UpstreamCoin(i)]

\* HTTPClient.get: one GET; raise_for_status raises HTTPStatusError, transport
\* failures are httpx.RequestError, logged and re-raised; else the JSON body.
HTTPClient_get(rp) ==
    IF rp.kind = "ok"
    THEN [raised |-> FALSE, text |-> "", data |-> UpstreamItems(rp.n)]
    ELSE [raised |-> TRUE, text |-> ExcText(rp.kind), data |-> <<>>]

\* CoinGeckoService.get_all_coins / get_coin_by_id / get_categories /
\* get_category_by_id: the outbound request each one builds; the result of
\* HTTPClient.get is returned, an exception is logged and re-raised.
UpstreamRequest(path, page, per_page) ==
    [path |-> path, page |-> page, per_page |-> per_page]

CoinGeckoService_get(rp) == HTTPClient_get(rp)

(***************************************************************************)
(* Requests.                                                               *)
(***************************************************************************)
Coins == "GET /v1/coins"

Filter == "GET /v1/coins/filter"

Categories == "GET /v1/categories"

Health == "GET /health"

Version == "GET /version"

Login == "POST /v1/auth/login"

Root == "GET /"

Routes == {Coins, Filter, Categories, Health, Version, Login, Root}

\* a router without its verify_jwt dependency: the categories router unguarded
RouterDependenciesCategoriesOpen(route) == route \in {Coins, Filter}

\* dependencies=[Depends(verify_jwt)] of the coins and categories routers
RouterDependencies(route) == route \in {Coins, Filter, Categories}

Subjects == {"a@b.com", ""}

Garbage == [form |-> "garbage", sub |-> None, exp |-> 0, sig |-> Sign("", None, 0)]

\* the tokens a client can present: the issued ones, an issued one with its
\* exp pushed back under the old signature, one signed with another key, and
\* a string that is no token
Forged(tok) == [tok EXCEPT !.sig = Sign("attacker_key", tok.sub, tok.exp)]

Tampered(tok) == [tok EXCEPT !.exp = tok.exp + MaxTime]

PresentableTokens ==
    {Garbage, Forged(jwt_encode(Some("a@b.com"), MaxTime * TicksPerSecond, SecretKey))}
        \cup {i.token : i \in issued}
        \cup {Tampered(i.token) : i \in issued}

Headers ==
    {None} \cup {Some([scheme |-> "Basic", credentials |-> Garbage])}
        \cup {Some([scheme |-> "Bearer", credentials |-> t]) : t \in PresentableTokens}

\* routes without the verify_jwt dependency never read the header
HeadersOf(route) ==
    IF RouterDependencies(route) THEN Headers
    ELSE {None, Some([scheme |-> "Bearer", credentials |-> Garbage])}

NoParams ==
    [page_num |-> None, per_page |-> None, id |-> None, category |-> None,
     email |-> None, password |-> None]

PageNumInputs == {None, Some(0), Some(1), Some(2)}

PerPageInputs ==
    {None, Some(0), Some(1), Some(2), Some(QueryMaxPerPage),
     Some(QueryMaxPerPage + 1), Some(QueryMaxPerPage + 150)}

StrInputs == {None, Some(""), Some("bitcoin")}

EmailInputs == {Some("a@b.com"), Some("not-an-email")}

PasswordInputs == {None, Some(""), Some("secret")}

\* pydantic's EmailStr: the syntactically valid addresses among the inputs
EmailStr(e) == ~IsNone(e) /\ Val(e) = "a@b.com"

\* LoginRequest: email an EmailStr, password a required str of any content
LoginRequest(params) == EmailStr(params.email) /\ ~IsNone(params.password)

ParamsOf(route) ==
    CASE route = Coins ->
           {[NoParams EXCEPT !.page_num = p] : p \in PageNumInputs}
               \cup {[NoParams EXCEPT !.page_num = Some(2), !.per_page = q] :
                        q \in PerPageInputs}
      [] route = Filter ->
           {[NoParams EXCEPT !.id = i, !.category = c] :
                i \in StrInputs, c \in StrInputs}
      [] route = Login ->
           {[NoParams EXCEPT !.email = e, !.password = w] :
                e \in EmailInputs, w \in PasswordInputs}
      [] OTHER -> {NoParams}

NoReq == [route |-> "", authorization |-> None, params |-> NoParams]

(***************************************************************************)
(* The pipeline.                                                           *)
(***************************************************************************)
Truthy(o) == ~IsNone(o) /\ Val(o) # ""

\* `except Exception as e` of a route handler: the cause is logged, the
\* client gets status 500 with the route's fixed message.
except_Exception_leaks(text, fixed) == HTTPException(500, text, "")

except_Exception(text, fixed) == HTTPException(500, fixed, "")

Finish(r) ==
    /\ resp' = r
    /\ pc' = "done"
    /\ UNCHANGED <<outbound, reply, user>>

\* An upstream call that sends its request a second time.
Await_twice(request) ==
    /\ outbound' = Append(Append(outbound, request), request)
    /\ pc' = "await"
    /\ UNCHANGED <<resp, reply, user>>

\* await HTTPClient.get(...): the one outbound request of the handler
Await(request) ==
    /\ outbound' = Append(outbound, request)
    /\ pc' = "await"
    /\ UNCHANGED <<resp, reply, user>>

Tick ==
    /\ now < MaxTime
    /\ now' = now + 1
    /\ UNCHANGED <<settings, issued, req, pc, user, outbound, reply, resp, pageVars>>

\* the issued tokens the model keeps for later presentation; the program
\* itself keeps none
IssueBudget == Cardinality(issued) < MaxIssued

Issue(sub, expires_delta) ==
    issued \cup {[token  |-> create_token(settings, sub, expires_delta, now),
                  expire |-> TokenExpire(settings, expires_delta, now),
                  sub    |-> sub,
                  at     |-> now]}

\* a direct call of JWTManager.create_token(data, expires_delta)
create_token_call ==
    /\ IssueBudget
    /\ \E s \in Subjects, d \in {None, Some(0), Some(1)} :
         issued' = Issue(Some(s), d)
    /\ UNCHANGED <<settings, now, req, pc, user, outbound, reply, resp, pageVars>>

\* a request arrives; FastAPI solves the route's dependencies before the handler
Arrive ==
    /\ pc = "idle"
    /\ \E route \in Routes :
         /\ \E h \in HeadersOf(route), p \in ParamsOf(route) :
              req' = [route |-> route, authorization |-> h, params |-> p]
         /\ pc' = IF RouterDependencies(route) THEN "security" ELSE "handler"
    /\ user' = None
    /\ outbound' = <<>>
    /\ reply' = NoReply
    /\ resp' = NoResp
    /\ UNCHANGED <<settings, now, issued, pageVars>>

\* the response is sent and the request's state is dropped
Respond ==
    /\ pc = "done"
    /\ pc' = "idle"
    /\ req' = NoReq
    /\ user' = None
    /\ outbound' = <<>>
    /\ reply' = NoReply
    /\ resp' = NoResp
    /\ UNCHANGED <<settings, now, issued, pageVars>>

\* HTTPBearer() (auto_error): no header, or a scheme that is not "bearer", is
\* refused by the framework: with 403 and no challenge by FastAPI before
\* 0.122, with 401 and WWW-Authenticate: Bearer since.  The repository pins
\* no version, so either framework may be the one installed.
NotAuthenticated(fw, detail) ==
    IF fw = "fastapi<0.122"
    THEN HTTPException(403, detail, "")
    ELSE HTTPException(401, "Not authenticated", "Bearer")

Frameworks == {"fastapi<0.122", "fastapi>=0.122"}

HTTPBearer ==
    /\ pc = "security"
    /\ IF IsNone(req.authorization)
       THEN \E fw \in Frameworks : Finish(NotAuthenticated(fw, "Not authenticated"))
       ELSE IF Val(req.authorization).scheme # "Bearer"
       THEN \E fw \in Frameworks :
                Finish(NotAuthenticated(fw, "Invalid authentication credentials"))
       ELSE /\ pc' = "verify"
            /\ UNCHANGED <<resp, outbound, reply, user>>
    /\ UNCHANGED <<settings, now, issued, req, pageVars>>

\* verify_jwt: the payload of a valid token, or 401 with a Bearer challenge
verify_jwt_result(token, t) ==
    LET r == verify_token(token, t)
    IN  IF r.exc = "none" THEN [ok |-> TRUE, payload |-> r.payload, error |-> NoResp]
        ELSE IF IsInstance(r.exc, "ExpiredSignatureError")
        THEN [ok |-> FALSE, payload |-> r.payload,
              error |-> HTTPException(401, "Token has expired", "Bearer")]
        ELSE [ok |-> FALSE, payload |-> r.payload,
              error |-> HTTPException(401, "Invalid token", "Bearer")]

verify_jwt ==
    /\ pc = "verify"
    /\ LET r == verify_jwt_result(Val(req.authorization).credentials, now)
       IN  IF r.ok
           THEN /\ user' = Some(r.payload)
                /\ pc' = "handler"
                /\ UNCHANGED <<resp, outbound, reply>>
           ELSE Finish(r.error)
    /\ UNCHANGED <<settings, now, issued, req, pageVars>>

(***************************************************************************)
(* Route handlers.  A data route is two steps: up to its await of the      *)
(* upstream call, and from the provider's reply to the response.           *)
(***************************************************************************)
\* the provider answers the outbound request, or the attempt fails
upstream_reply ==
    /\ pc = "await"
    /\ reply' \in Replies
    /\ pc' = "resume"
    /\ UNCHANGED <<settings, now, issued, req, user, outbound, resp, pageVars>>

\* the Query(...) declarations of list_coins: defaults 1 and 10, ge=1, le=100
QueryPageNum(params) ==
    IF IsNone(params.page_num) THEN QueryDefaultPageNum ELSE Val(params.page_num)

QueryPerPage(params) ==
    IF IsNone(params.per_page) THEN QueryDefaultPerPage ELSE Val(params.per_page)

QueryValid(params) ==
    /\ QueryPageNum(params) >= 1
    /\ QueryPerPage(params) >= 1
    /\ QueryPerPage(params) <= QueryMaxPerPage

RequestValidationError == HTTPException(422, "Unprocessable Entity", "")

\* pagination = PaginationParams(page_num=page_num, per_page=per_page)
CoinsPagination(cfg, params) ==
    PaginationParams(cfg, Some(QueryPageNum(params)), Some(QueryPerPage(params)))

Upper(sym) == IF sym = "btc" THEN "BTC" ELSE sym

\* the formatted_coins comprehension of list_coins
FormatCoin(coin) ==
    [id |-> coin.id,
     symbol |-> IF Truthy(coin.symbol) THEN Some(Upper(Val(coin.symbol))) ELSE None]

FormatCoins(coins_data) == [i \in 1..Len(coins_data) |-> FormatCoin(coins_data[i])]

list_coins_call ==
    /\ pc = "handler"
    /\ req.route = Coins
    /\ IF ~QueryValid(req.params)
       THEN Finish(RequestValidationError)
       ELSE LET pagination == CoinsPagination(settings, req.params)
            IN  IF ~pagination.ok
                THEN Finish(except_Exception("ValidationError", "Failed to fetch coins"))
                ELSE Await(UpstreamRequest("/coins/markets", pagination.page_num,
                                           pagination.per_page))
    /\ UNCHANGED <<settings, now, issued, req, pageVars>>

\* A list_coins that counts the items of the earlier pages into total.
list_coins_response_counts_offset(cfg, params, rp) ==
    LET r          == CoinGeckoService_get(rp)
        pagination == CoinsPagination(cfg, params)
        formatted  == FormatCoins(r.data)
        page       == PaginatedResponse_create(formatted,
                          get_offset(pagination) + Len(formatted),
                          pagination.page_num, pagination.per_page)
    IN  IF r.raised
        THEN except_Exception(r.text, "Failed to fetch coins")
        ELSE Ok([kind |-> "page", data |-> page.data, total |-> page.total,
                 page_num |-> page.page_num, per_page |-> page.per_page,
                 total_pages |-> page.total_pages])

\* list_coins from the reply on: the envelope of what the provider returned
list_coins_response(cfg, params, rp) ==
    LET r          == CoinGeckoService_get(rp)
        pagination == CoinsPagination(cfg, params)
        formatted  == FormatCoins(r.data)
        page       == PaginatedResponse_create(formatted, Len(formatted),
                                               pagination.page_num, pagination.per_page)
    IN  IF r.raised
        THEN except_Exception(r.text, "Failed to fetch coins")
        ELSE Ok([kind |-> "page", data |-> page.data, total |-> page.total,
                 page_num |-> page.page_num, per_page |-> page.per_page,
                 total_pages |-> page.total_pages])

list_coins_return ==
    /\ pc = "resume"
    /\ req.route = Coins
    /\ Finish(list_coins_response(settings, req.params, reply))
    /\ UNCHANGED <<settings, now, issued, req, pageVars>>

\* filter_coins up to its await: by id, else by category, else HTTPException
\* 400 raised inside the handler's own try block
filter_coins_call ==
    /\ pc = "handler"
    /\ req.route = Filter
    /\ IF Truthy(req.params.id)
       THEN Await(UpstreamRequest("/coins/{id}", 0, 0))
       ELSE IF Truthy(req.params.category)
       THEN Await(UpstreamRequest("/coins/categories/{id}", 0, 0))
       ELSE Finish(except_Exception(
                "400: Either 'id' or 'category' parameter must be provided",
                "Failed to filter coins"))
    /\ UNCHANGED <<settings, now, issued, req, pageVars>>

\* A filter_coins that looks at category before id.
filter_coins_response_category_first(params, rp) ==
    LET r == CoinGeckoService_get(rp)
    IN  IF r.raised
        THEN except_Exception(r.text, "Failed to filter coins")
        ELSE IF Truthy(params.category)
        THEN Ok(ListBody("category", r.data))
        ELSE Ok(ListBody("coin", r.data))

filter_coins_response(params, rp) ==
    LET r == CoinGeckoService_get(rp)
    IN  IF r.raised
        THEN except_Exception(r.text, "Failed to filter coins")
        ELSE IF Truthy(params.id)
        THEN Ok(ListBody("coin", r.data))
        ELSE Ok(ListBody("category", r.data))

filter_coins_return ==
    /\ pc = "resume"
    /\ req.route = Filter
    /\ Finish(filter_coins_response(req.params, reply))
    /\ UNCHANGED <<settings, now, issued, req, pageVars>>

list_categories_call ==
    /\ pc = "handler"
    /\ req.route = Categories
    /\ Await(UpstreamRequest("/coins/categories", 0, 0))
    /\ UNCHANGED <<settings, now, issued, req, pageVars>>

list_categories_response(rp) ==
    LET r == CoinGeckoService_get(rp)
    IN  IF r.raised
        THEN except_Exception(r.text, "Failed to fetch categories")
        ELSE Ok(ListBody("categories", r.data))

list_categories_return ==
    /\ pc = "resume"
    /\ req.route = Categories
    /\ Finish(list_categories_response(reply))
    /\ UNCHANGED <<settings, now, issued, req, pageVars>>

\* GET /health: HealthCheckService.check_coingecko_health pings the provider
health_check_call ==
    /\ pc = "handler"
    /\ req.route = Health
    /\ Await(UpstreamRequest("/ping", 0, 0))
    /\ UNCHANGED <<settings, now, issued, req, pageVars>>

\* A get_full_health that reports "healthy" whatever the ping gave.
get_full_health_always_healthy(rp) ==
    LET r         == HTTPClient_get(rp)
        coingecko == IF r.raised THEN "unhealthy" ELSE "healthy"
    IN  ListBody("health", <<"healthy", coingecko>>)

\* check_coingecko_health catches every exception; get_full_health reports
\* "healthy" or "degraded"
get_full_health(rp) ==
    LET r         == HTTPClient_get(rp)
        coingecko == IF r.raised THEN "unhealthy" ELSE "healthy"
        overall   == IF coingecko = "healthy" THEN "healthy" ELSE "degraded"
    IN  ListBody("health", <<overall, coingecko>>)

health_check_return ==
    /\ pc = "resume"
    /\ req.route = Health
    /\ Finish(Ok(get_full_health(reply)))
    /\ UNCHANGED <<settings, now, issued, req, pageVars>>

\* GET /version and GET /: static metadata
version_info ==
    /\ pc = "handler"
    /\ req.route \in {Version, Root}
    /\ Finish(Ok(ListBody("info", <<>>)))
    /\ UNCHANGED <<settings, now, issued, req, pageVars>>

\* TokenResponse(access_token = create_token({"sub": request.email}));
\* token_type keeps its default
TokenResponse(access_token) == ListBody("token", <<access_token, "bearer">>)

\* A login that refuses an empty password.
login_checks_password ==
    /\ pc = "handler"
    /\ req.route = Login
    /\ IF ~LoginRequest(req.params)
       THEN /\ Finish(RequestValidationError)
            /\ UNCHANGED issued
       ELSE IF req.params.password = Some("")
       THEN /\ Finish(HTTPException(401, "Invalid credentials", ""))
            /\ UNCHANGED issued
       ELSE /\ issued' = IF IssueBudget THEN Issue(req.params.email, None) ELSE issued
            /\ Finish(Ok(TokenResponse(create_token(settings, req.params.email, None, now))))
    /\ UNCHANGED <<settings, now, req, pageVars>>

\* POST /v1/auth/login: the body is validated (LoginRequest), no credential
\* is checked, a token for sub = email is returned
login ==
    /\ pc = "handler"
    /\ req.route = Login
    /\ IF ~LoginRequest(req.params)
       THEN /\ Finish(RequestValidationError)
            /\ UNCHANGED issued
       ELSE /\ issued' = IF IssueBudget THEN Issue(req.params.email, None) ELSE issued
            /\ Finish(Ok(TokenResponse(create_token(settings, req.params.email, None, now))))
    /\ UNCHANGED <<settings, now, req, pageVars>>

NoCall == [op |-> "none", items |-> <<>>, total |-> 0, page_num |-> None, per_page |-> None]

NoRet ==
    [ok |-> TRUE, items |-> <<>>, total |-> 0, page_num |-> 0, per_page |-> 0,
     total_pages |-> 0]

Init ==
    /\ settings \in Configs
    /\ now = 0
    /\ issued = {}
    /\ req = NoReq
    /\ pc = "idle"
    /\ user = None
    /\ outbound = <<>>
    /\ reply = NoReply
    /\ resp = NoResp
    /\ call = NoCall
    /\ ret = NoRet

Next ==
    \/ Tick
    \/ create_token_call
    \/ Arrive
    \/ Respond
    \/ HTTPBearer
    \/ verify_jwt
    \/ upstream_reply
    \/ list_coins_call
    \/ list_coins_return
    \/ filter_coins_call
    \/ filter_coins_return
    \/ list_categories_call
    \/ list_categories_return
    \/ health_check_call
    \/ health_check_return
    \/ version_info
    \/ login

Spec == Init /\ [][Next]_vars

(***************************************************************************)
(* SpecPage: direct calls of the pagination utilities, one call in each    *)
(* behaviour.                                                              *)
(***************************************************************************)
Ascending(n) == [i \in 1..n |-> i]

Descending(n) == [i \in 1..n |-> n + 1 - i]

ItemLists == {Ascending(n) : n \in 0..MaxItems} \cup {Descending(n) : n \in 0..MaxItems}

PaginationParams_call ==
    /\ call.op = "none"
    /\ \E p \in PageNumInputs, q \in PerPageInputs :
         LET r == PaginationParams(settings, p, q)
         IN  /\ call' = [NoCall EXCEPT !.op = "PaginationParams", !.page_num = p,
                                       !.per_page = q]
             /\ ret' = [NoRet EXCEPT !.ok = r.ok, !.page_num = r.page_num,
                                     !.per_page = r.per_page]
    /\ UNCHANGED <<settings, pipelineVars>>

PaginatedResponse_create_call ==
    /\ call.op = "none"
    /\ \E n \in 0..MaxUpstreamItems, total \in 0..MaxTotal,
          page_num \in 1..MaxPage, per_page \in (-1)..MaxPage :
         LET r == PaginatedResponse_create(Ascending(n), total, page_num, per_page)
         IN  /\ call' = [op |-> "PaginatedResponse.create", items |-> Ascending(n),
                         total |-> total, page_num |-> Some(page_num),
                         per_page |-> Some(per_page)]
             /\ ret' = [ok |-> r.ok, items |-> r.data, total |-> r.total,
                        page_num |-> r.page_num, per_page |-> r.per_page,
                        total_pages |-> r.total_pages]
    /\ UNCHANGED <<settings, pipelineVars>>

paginate_list_call ==
    /\ call.op = "none"
    /\ \E items \in ItemLists, page_num \in 0..MaxPage, per_page \in (-1)..MaxPage :
         LET r == paginate_list(items, page_num, per_page)
         IN  /\ call' = [NoCall EXCEPT !.op = "paginate_list", !.items = items,
                                       !.page_num = Some(page_num),
                                       !.per_page = Some(per_page)]
             /\ ret' = [NoRet EXCEPT !.items = r.items, !.total = r.total]
    /\ UNCHANGED <<settings, pipelineVars>>

NextPage ==
    \/ PaginationParams_call
    \/ PaginatedResponse_create_call
    \/ paginate_list_call

SpecPage == Init /\ [][NextPage]_vars

(***************************************************************************)
(* SpecAuth: direct calls of the authentication helpers, one call in each  *)
(* behaviour.  A header is the string of its characters.                   *)
(***************************************************************************)
\* current_user.get("sub"); 401 "Invalid token claims" when it is falsy.  The
\* HTTPException is built without a headers argument.
get_current_user_id(current_user) ==
    LET user_id == current_user.sub
    IN  IF ~Truthy(user_id)
        THEN [ok |-> FALSE, user_id |-> None,
              error |-> HTTPException(401, "Invalid token claims", "")]
        ELSE [ok |-> TRUE, user_id |-> user_id, error |-> NoResp]

\* str.startswith
startswith(s, prefix) ==
    Len(s) >= Len(prefix) /\ SubSeq(s, 1, Len(prefix)) = prefix

\* str.split(" "): cut at every single space; two spaces in a row, or a space
\* at either end, give an empty piece
RECURSIVE str_split(_)
str_split(s) ==
    IF s = <<>> THEN << <<>> >>
    ELSE LET rest == str_split(Tail(s))
         IN  IF Head(s) = " " THEN << <<>> >> \o rest
             ELSE << <<Head(s)>> \o Head(rest) >> \o Tail(rest)

BearerPrefix == <<"B", "e", "a", "r", "e", "r", " ">>

\* JWTManager.extract_token_from_header: ValueError for a falsy header or one
\* that does not start with "Bearer ", else authorization.split(" ")[1]
extract_token_from_header(authorization) ==
    IF IsNone(authorization) \/ Val(authorization) = <<>>
          \/ ~startswith(Val(authorization), BearerPrefix)
    THEN [raised |-> TRUE, exc |-> "ValueError", token |-> <<>>]
    ELSE [raised |-> FALSE, exc |-> "none", token |-> str_split(Val(authorization))[2]]

\* the headers handed to extract_token_from_header: a start followed by up to
\* MaxTail characters, each a token character or a space
HeaderStarts ==
    {<<>>, <<"B", "e", "a", "r", "e", "r">>, BearerPrefix,
     <<"b", "e", "a", "r", "e", "r", " ">>, <<"B", "a", "s", "i", "c", " ">>}

HeaderChars == {"x", " "}

HeaderTails == UNION {[1..n -> HeaderChars] : n \in 0..MaxTail}

AuthorizationInputs == {None} \cup {Some(h \o t) : h \in HeaderStarts, t \in HeaderTails}

\* the tokens handed to verify_jwt: created at time 0 for each subject (none,
\* empty, an address), with and without an expires_delta, and their
\* corruptions
AuthSubjects == {None} \cup {Some(s) : s \in Subjects}

CreatedTokens ==
    {create_token(settings, s, d, 0) : s \in AuthSubjects, d \in {None, Some(1)}}

AuthTokens ==
    CreatedTokens \cup {Garbage} \cup {Forged(t) : t \in CreatedTokens}
        \cup {Tampered(t) : t \in CreatedTokens}

NoAuthCall ==
    [op |-> "none", token |-> Garbage, at |-> 0, current_user |-> [sub |-> None, exp |-> 0],
     authorization |-> None]

NoAuthRet ==
    [ok |-> TRUE, error |-> NoResp, payload |-> [sub |-> None, exp |-> 0],
     user_id |-> None, token |-> <<>>]

\* Depends(verify_jwt) solved at time t for a presented bearer token
verify_jwt_call ==
    /\ call.op = "none"
    /\ \E tok \in AuthTokens, t \in 0..MaxTime :
         LET r == verify_jwt_result(tok, t)
         IN  /\ call' = [NoAuthCall EXCEPT !.op = "verify_jwt", !.token = tok, !.at = t]
             /\ ret' = [NoAuthRet EXCEPT !.ok = r.ok, !.error = r.error,
                                         !.payload = r.payload]
    /\ UNCHANGED <<settings, pipelineVars>>

\* get_current_user_id(current_user = Depends(verify_jwt)): called with the
\* payload of a token that verify_jwt accepted
get_current_user_id_call ==
    /\ call.op = "none"
    /\ \E tok \in CreatedTokens, t \in 0..MaxTime :
         LET v == verify_jwt_result(tok, t)
             r == get_current_user_id(v.payload)
         IN  /\ v.ok
             /\ call' = [NoAuthCall EXCEPT !.op = "get_current_user_id", !.token = tok,
                                           !.at = t, !.current_user = v.payload]
             /\ ret' = [NoAuthRet EXCEPT !.ok = r.ok, !.error = r.error,
                                         !.user_id = r.user_id]
    /\ UNCHANGED <<settings, pipelineVars>>

extract_token_from_header_call ==
    /\ call.op = "none"
    /\ \E h \in AuthorizationInputs :
         LET r == extract_token_from_header(h)
         IN  /\ call' = [NoAuthCall EXCEPT !.op = "extract_token_from_header",
                                           !.authorization = h]
             /\ ret' = [NoAuthRet EXCEPT !.ok = ~r.raised, !.token = r.token]
    /\ UNCHANGED <<settings, pipelineVars>>

InitAuth ==
    /\ settings \in Configs
    /\ now = 0
    /\ issued = {}
    /\ req = NoReq
    /\ pc = "idle"
    /\ user = None
    /\ outbound = <<>>
    /\ reply = NoReply
    /\ resp = NoResp
    /\ call = NoAuthCall
    /\ ret = NoAuthRet

NextAuth ==
    \/ verify_jwt_call
    \/ get_current_user_id_call
    \/ extract_token_from_header_call

SpecAuth == InitAuth /\ [][NextAuth]_vars

(***************************************************************************)
(* Properties.                                                             *)
(***************************************************************************)
Protected == {Coins, Filter, Categories}

Served == pc = "done"

Authenticated == ~IsNone(user)

\* the fixed message of each data route's except clause
FixedMessage(route) ==
    CASE route = Coins -> "Failed to fetch coins"
      [] route = Filter -> "Failed to filter coins"
      [] route = Categories -> "Failed to fetch categories"
      [] OTHER -> ""

ExcTexts == {ExcText(f) : f \in Failures}

\* C1: a request to a protected route that carries no Authorization header is
\* answered with 401 and WWW-Authenticate: Bearer.
C1_NoHeaderIs401 ==
    (Served /\ req.route \in Protected /\ IsNone(req.authorization))
        => (resp.status = 401 /\ resp.www_authenticate = "Bearer")

\* C2: an authenticated GET /v1/coins/filter with neither id nor category
\* (absent or empty) is answered with 400, and no upstream call is made.
C2_NeitherIs400 ==
    (Served /\ req.route = Filter /\ Authenticated
        /\ ~Truthy(req.params.id) /\ ~Truthy(req.params.category))
        => (resp.status = 400 /\ outbound = <<>>)

\* C3: on every protected data route, a failed upstream call (transport
\* error, timeout, non-2xx status) gives 500 with only the route's fixed
\* message; the text of the exception is not in the response.
C3_UpstreamFailureIs500 ==
    (Served /\ req.route \in Protected /\ reply.kind \in Failures)
        => /\ resp = HTTPException(500, FixedMessage(req.route), "")
           /\ resp.detail \notin ExcTexts
           /\ resp.body = EmptyBody

C3_Witness ==
    /\ Served
    /\ req.route = Filter
    /\ Truthy(req.params.category)
    /\ ~Truthy(req.params.id)
    /\ reply.kind = "HTTPStatusError"
    /\ resp.status = 500

\* C4: on a protected route the handler runs, and an upstream call is issued,
\* only after verify_jwt has succeeded for the request (its token is signed
\* with the secret key and user is that token's payload); /health, /version
\* and /v1/auth/login are served without verify_jwt, whatever the header.
C4_VerifyPrecedesHandler ==
    /\ (req.route \in Protected
          /\ (pc \in {"handler", "await", "resume"} \/ outbound # <<>>
                \/ reply # NoReply))
         => /\ Authenticated
            /\ ~IsNone(req.authorization)
            /\ LET tok == Val(req.authorization).credentials
               IN  /\ tok.form = "jws"
                   /\ tok.sig = Sign(SecretKey, tok.sub, tok.exp)
                   /\ Val(user) = [sub |-> tok.sub, exp |-> tok.exp]
    /\ (Served /\ req.route \in {Health, Version, Login})
         => /\ ~Authenticated
            /\ resp.status \in {200, 422}
            /\ resp.status = 422 => (req.route = Login /\ ~LoginRequest(req.params))

C4_Witness ==
    /\ req.route = Categories
    /\ pc = "resume"
    /\ Len(outbound) = 1
    /\ Authenticated

\* past the expiry create_token computed, or past the token's exp claim
C5_Expired(i) == now > i.expire \/ now > i.token.exp * TicksPerSecond

\* C5: a token produced by create_token, verified at any time after its
\* expiry instant, fails with the expired-credential error (never claims,
\* never the malformed-credential error), and verify_jwt answers 401.
C5_ExpiredIsRejected ==
    /\ [](\A i \in issued :
            C5_Expired(i) => verify_token(i.token, now).exc = "ExpiredSignatureError")
    /\ [][(/\ pc = "verify"
           /\ pc' # "verify"
           /\ \E i \in issued :
                i.token = Val(req.authorization).credentials /\ C5_Expired(i))
          => (/\ pc' = "done"
              /\ user' = None
              /\ resp' = HTTPException(401, "Token has expired", "Bearer"))]_vars

C5_Witness ==
    /\ Served
    /\ req.route = Coins
    /\ resp.status = 401
    /\ resp.detail = "Token has expired"
    /\ \E i \in issued :
         i.token = Val(req.authorization).credentials /\ now > i.expire

\* C6: round trip: a token create_token made for subject s, verified before
\* its expiry instant (its exp claim), verifies, and the claims returned are
\* the issued ones: sub = s and exp, the expiry in whole seconds.
C6_RoundTrip ==
    /\ \A i \in issued :
         now < i.token.exp * TicksPerSecond
           => LET r == verify_token(i.token, now)
              IN  /\ r.exc = "none"
                  /\ r.payload.sub = i.sub
                  /\ r.payload.exp * TicksPerSecond <= i.expire
                  /\ i.expire < (r.payload.exp + 1) * TicksPerSecond
    /\ (Authenticated /\ pc = "handler")
         => \A i \in issued :
              i.token = Val(req.authorization).credentials => Val(user).sub = i.sub

C6_Witness ==
    /\ pc = "handler"
    /\ Authenticated
    /\ now > 0
    /\ \E i \in issued :
         /\ i.token = Val(req.authorization).credentials
         /\ i.sub = Some("a@b.com")
         /\ Val(user).sub = Some("a@b.com")
         /\ i.at < now

\* C7: for every requested per_page greater than max_per_page, whatever
\* max_per_page is configured, PaginationParams.per_page, the per_page sent
\* upstream and the one in the envelope equal max_per_page: the request is
\* clamped, not rejected.
C7_ClampedNotRejected ==
    (Served /\ req.route = Coins /\ Authenticated
        /\ ~IsNone(req.params.per_page)
        /\ Val(req.params.per_page) > settings.max_per_page
        /\ reply.kind \notin Failures)
        => /\ LET params == PaginationParams(settings, req.params.page_num,
                                             req.params.per_page)
              IN  params.ok /\ params.per_page = settings.max_per_page
           /\ resp.status = 200
           /\ Len(outbound) = 1
           /\ outbound[1].per_page = settings.max_per_page
           /\ resp.body.per_page = settings.max_per_page

\* ceil(a / b) for a >= 0, b > 0: the least n with n * b >= a
CeilDiv(a, b) == CHOOSE n \in 0..a : n * b >= a /\ (n = 0 \/ (n - 1) * b < a)

\* C8: for total >= 0 and per_page > 0, PaginatedResponse.create sets
\* total_pages to ceil(total / per_page), which is 0 exactly when total is 0.
C8_TotalPagesIsCeiling ==
    (call.op = "PaginatedResponse.create" /\ call.total >= 0 /\ Val(call.per_page) > 0)
        => /\ ret.ok
           /\ ret.total_pages = CeilDiv(call.total, Val(call.per_page))
           /\ (ret.total_pages = 0) <=> (call.total = 0)

C8_Witness ==
    /\ call.op = "PaginatedResponse.create"
    /\ call.total = 7
    /\ Val(call.per_page) = 3
    /\ ret.total_pages = 3

\* the items at positions [offset, offset + per_page) of a list, by position
ExpectedPage(items, page_num, per_page) ==
    LET offset == (page_num - 1) * per_page
        count  == Max(0, Min(per_page, Len(items) - offset))
    IN  [k \in 1..count |-> items[offset + k]]

\* C9: for page_num >= 1 and per_page >= 1, paginate_list returns the items
\* at positions [offset, offset + per_page), offset = (page_num - 1) * per_page,
\* cut at the end of the list (none when offset is at or past the end), and
\* the length of the whole list; 10 items, page 2, per_page 3: items 4 to 6.
C9_SliceOfPage ==
    /\ (call.op = "paginate_list" /\ Val(call.page_num) >= 1 /\ Val(call.per_page) >= 1)
         => /\ ret.items = ExpectedPage(call.items, Val(call.page_num), Val(call.per_page))
            /\ ret.total = Len(call.items)
            /\ Len(ret.items) <= Val(call.per_page)
    /\ (call.op = "paginate_list" /\ call.items = Ascending(10)
          /\ call.page_num = Some(2) /\ call.per_page = Some(3))
         => (ret.items = <<4, 5, 6>> /\ ret.total = 10)

C9_Witness ==
    /\ call.op = "paginate_list"
    /\ call.items = Ascending(10)
    /\ call.page_num = Some(2)
    /\ call.per_page = Some(3)
    /\ ret.items = <<4, 5, 6>>
    /\ ret.total = 10

\* C10: every page envelope GET /v1/coins returns has at most per_page items
\* in data, whatever the provider answered.
C10_DataWithinPerPage ==
    (Served /\ req.route = Coins /\ resp.status = 200)
        => Len(resp.body.data) <= resp.body.per_page

\* C11: every authentication failure is a 401 that carries the challenge
\* WWW-Authenticate: Bearer: verify_jwt refusing an expired, malformed or
\* wrongly signed token, and get_current_user_id refusing a verified token
\* whose sub claim is absent or empty.
C11_AuthFailureIs401WithChallenge ==
    /\ (call.op = "verify_jwt" /\ ~ret.ok)
         => (ret.error.status = 401 /\ ret.error.www_authenticate = "Bearer")
    /\ (call.op = "get_current_user_id" /\ ~Truthy(call.current_user.sub))
         => (~ret.ok /\ ret.error.status = 401 /\ ret.error.www_authenticate = "Bearer")

\* C12: GET /health never fails because of the provider: when the ping fails
\* (no connection, timeout, non-2xx status) the request is still answered
\* with 200, the provider reported "unhealthy" and the overall status
\* "degraded"; the overall status is "healthy" exactly when the ping succeeded.
C12_HealthDegradesGracefully ==
    (Served /\ req.route = Health)
        => /\ resp.status = 200
           /\ resp.body.kind = "health"
           /\ reply.kind \in Failures
                => resp.body.data = <<"degraded", "unhealthy">>
           /\ resp.body.data[1] = "healthy" <=> reply.kind = "ok"
           /\ resp.body.data[2] = "healthy" <=> reply.kind = "ok"

C12_Witness ==
    /\ Served
    /\ req.route = Health
    /\ reply.kind = "ReadTimeout"
    /\ resp.status = 200
    /\ resp.body.data = <<"degraded", "unhealthy">>

BothSupplied ==
    /\ Served
    /\ req.route = Filter
    /\ Authenticated
    /\ Truthy(req.params.id)
    /\ Truthy(req.params.category)

\* C13: GET /v1/coins/filter requires exactly one of id and category: an
\* authenticated request that supplies both is answered with 400.
C13_BothIs400 ==
    BothSupplied => resp.status = 400

\* C13, amended: an authenticated GET /v1/coins/filter that supplies both id
\* and category is not answered with 400: it is served as the coin-detail
\* lookup by id, category ignored: one upstream call for the coin, 200 with
\* the coin detail when the provider answers, 500 when the call fails.
C13_BothServedById ==
    BothSupplied
        => /\ outbound = <<UpstreamRequest("/coins/{id}", 0, 0)>>
           /\ resp.status # 400
           /\ reply.kind = "ok" => (resp.status = 200 /\ resp.body.kind = "coin")
           /\ reply.kind \in Failures => resp.status = 500

C13_Witness ==
    /\ BothSupplied
    /\ reply.kind = "ok"
    /\ resp.status = 200
    /\ resp.body.kind = "coin"

\* C14: no retry: a request to a data route or to /health causes at most one
\* outbound request, exactly one once the handler has called the gateway, and
\* a failed attempt ends the request at once (500 on a data route) with that
\* one outbound request and no second attempt or fallback.
C14_NoRetry ==
    /\ Len(outbound) <= 1
    /\ pc \in {"await", "resume"} => Len(outbound) = 1
    /\ (Served /\ reply # NoReply) => Len(outbound) = 1
    /\ (Served /\ reply.kind \in Failures /\ req.route \in Protected)
         => (resp.status = 500 /\ resp.body = EmptyBody)

C14_Witness ==
    /\ Served
    /\ req.route = Coins
    /\ reply.kind = "ConnectError"
    /\ Len(outbound) = 1
    /\ resp.status = 500

WellFormedLogin ==
    /\ Served
    /\ req.route = Login
    /\ EmailStr(req.params.email)
    /\ ~IsNone(req.params.password)

\* C15: POST /v1/auth/login with a well-formed body (a syntactically valid
\* email, any password) always succeeds, whatever the password and whatever
\* was issued before: 200 with an access_token signed by the service whose
\* sub is the request's email, and token_type "bearer".
C15_LoginAlwaysSucceeds ==
    WellFormedLogin
        => /\ resp.status = 200
           /\ resp.body.kind = "token"
           /\ LET access_token == resp.body.data[1]
              IN  /\ access_token.form = "jws"
                  /\ access_token.sub = req.params.email
                  /\ access_token.sig = Sign(SecretKey, access_token.sub, access_token.exp)
           /\ resp.body.data[2] = "bearer"

\* a second successful login of a subject, with an empty password, after an
\* earlier token for the same subject
C15_Witness ==
    /\ WellFormedLogin
    /\ req.params.password = Some("")
    /\ resp.status = 200
    /\ \E i \in issued : i.sub = req.params.email /\ i.token # resp.body.data[1]

\* C16: the route validates GET /v1/coins against the configured maximum: a
\* request with page_num < 1, per_page < 1 or per_page > settings.max_per_page
\* is rejected before any upstream call, and every per_page from 1 to
\* settings.max_per_page is accepted, whatever max_per_page is configured.
C16_RouteValidatesAgainstConfiguredMax ==
    (Served /\ req.route = Coins /\ Authenticated)
        => LET page_num == req.params.page_num
               per_page == req.params.per_page
               bad == \/ ~IsNone(page_num) /\ Val(page_num) < 1
                      \/ ~IsNone(per_page) /\ Val(per_page) < 1
                      \/ ~IsNone(per_page) /\ Val(per_page) > settings.max_per_page
           IN  /\ bad => (resp.status \in {400, 422} /\ outbound = <<>>)
               /\ (~bad /\ ~IsNone(per_page))
                    => (resp.status \notin {400, 422} /\ Len(outbound) = 1)

\* C17: pagination uses the configured defaults: with page_num absent the
\* effective page is settings.default_page_num, with per_page absent the
\* effective page size is min(settings.default_per_page, settings.max_per_page),
\* both for PaginationParams built with absent values and for a GET /v1/coins
\* that omits the query parameters, whatever defaults are configured.
C17_DefaultsAreConfigured ==
    /\ LET p == PaginationParams(settings, None, None)
       IN  /\ p.ok
           /\ p.page_num = settings.default_page_num
           /\ p.per_page = Min(settings.default_per_page, settings.max_per_page)
    /\ (Served /\ req.route = Coins /\ Authenticated /\ resp.status = 200
          /\ IsNone(req.params.page_num) /\ IsNone(req.params.per_page))
         => /\ resp.body.page_num = settings.default_page_num
            /\ resp.body.per_page = Min(settings.default_per_page, settings.max_per_page)
            /\ outbound[1].page = settings.default_page_num
            /\ outbound[1].per_page = Min(settings.default_per_page, settings.max_per_page)

C19_ExtractWholeRemainder ==
    call.op = "extract_token_from_header"
        => LET h == call.authorization
           IN  IF IsNone(h) \/ Val(h) = <<>> \/ ~startswith(Val(h), BearerPrefix)
               THEN ~ret.ok
               ELSE /\ ret.ok
                    /\ ret.token = SubSeq(Val(h), Len(BearerPrefix) + 1, Len(Val(h)))
                    /\ ret.token # <<>>

====
